---- MODULE Spec2Model ----
(***************************************************************************)
(* PoolinGH: a pool of rate-limited GitHub API clients (GitHubApiClient)   *)
(* fed by a shared queue (GitHubApiQueue).  The queue's polling closure    *)
(* `queue` of _process, the promise handlers it registers on every         *)
(* dispatch and the client's request / _refresh / pause / _resume are      *)
(* modelled as they run on the single-threaded JavaScript event loop: a    *)
(* timer callback and the microtask chain of one settled HTTP call each    *)
(* run to completion, so each is one action.                               *)
(*                                                                         *)
(* Times are epoch milliseconds, rate-limit headers carry seconds.         *)
(***************************************************************************)
EXTENDS Integers, Sequences, FiniteSets, TLC

\* ------------------------------------------------------------------ bounds
NClients == 2       \* largest pool handed to the queue's constructor
NReq == 3           \* request objects the caller may enqueue (each once)
MaxStarts == 2      \* calls of start()
MaxNow == 3000      \* latest due time of a resume timer (ms)
MaxArgs == 2        \* most requests handed to one push / unshift call
MaxErrorCountPerRequest == 2    \* constructor argument maxErrorCountPerRequest
MaxErrorCountInTotal == 3       \* constructor argument maxErrorCountInTotal
MaxOutstanding == 2 \* most HTTP calls a caller of request() keeps outstanding

\* ------------------------------------------------------ program constants
SafetyRemainingRequestCount == 5
TokenResumeBufferTime == 2000
Second == 1000

Null == -1          \* JavaScript null / undefined / an absent header

Requests == 1 .. NReq

\* GitHubApiRequest.getUrl: requests 1 and 2 carry the same URL (the queue
\* does not deduplicate), every other request has a URL of its own.
getUrl(r) == IF r = 2 THEN 1 ELSE r

Max(a, b) == IF a >= b THEN a ELSE b

VARIABLES
    clients,        \* GitHubApiQueue._clients: sequence of client records
    queries,        \* GitHubApiQueue._queries: the backlog, head first
    isStopped,      \* GitHubApiQueue._isStopped
    errorCount,     \* GitHubApiQueue._errorCount
    errorUrls,      \* GitHubApiQueue._errorUrls: url -> count, present keys only
    timeouts,       \* pending setTimeout(queue, ..) callbacks
    inflight,       \* per client: requests handed to axios and not yet settled
    now,            \* Date.now()
    starts,         \* number of start() calls so far
    enqueued,       \* requests the caller has enqueued so far
    callbacks,      \* per request: number of runCallback invocations
    abortLogged,    \* the step into this state logged "error count too big"
    scheduled,      \* delay of the setTimeout(queue, ..) call of the step into
                    \* this state, Null when the step made none
    aborted,        \* requests dropped by the queue ("Abort")
    settled,        \* the settlement that produced this state, if one did
    mark,           \* the latest enqueue (push / unshift / retry) observed
    after,          \* requests dispatched since that enqueue, first time only
    ticked,         \* the step into this state ran the polling closure
    call,           \* the call on a client, or its timer, that led to this state
    owed,           \* the latest time an exhausted quota resets, buffer included
    handed          \* per request: number of times it was handed to a client

vars == << clients, queries, isStopped, errorCount, errorUrls, timeouts,
           inflight, now, starts, enqueued, callbacks, abortLogged, scheduled,
           aborted,
           settled, mark, after, ticked, call, owed, handed >>

\* ------------------------------------------------------------- the client

\* GitHubApiClient constructor.  Beside the fields of the object, timers is
\* the set of setTimeout callbacks of this client that the runtime holds,
\* each named by the time at which it is due; the field resumeTimer holds
\* the handle of one of them (its due time), or Null.
NewClient ==
    [ authorized |-> TRUE, busy |-> FALSE, remainingRequests |-> 0,
      resetAt |-> 0, resumeTimer |-> Null, timers |-> {} ]

\* A resume that forgets the handle but leaves the client unauthorized.
ResumeStaysPaused(cl) == [cl EXCEPT !.resumeTimer = Null]

\* GitHubApiClient._resume
Resume(cl) == [cl EXCEPT !.authorized = TRUE, !.resumeTimer = Null]

\* Dropping the handle without clearTimeout: the callback stays scheduled.
DropHandle(cl) == [cl EXCEPT !.resumeTimer = Null]

\* "if (this._resumeTimer !== null) { clearTimeout(..); this._resumeTimer =
\* null; }": the callback the handle names is taken from the runtime.
ClearResumeTimer(cl) ==
    IF cl.resumeTimer # Null
    THEN [cl EXCEPT !.timers = @ \ {cl.resumeTimer}, !.resumeTimer = Null]
    ELSE cl

\* The delay without the resume buffer.
DelayWithoutBuffer(at, t) == at - t

\* The delay pause() computes at time t for the reset time at.
Delay(at, t) == at - t + TokenResumeBufferTime

\* pause with < in place of <=: a delay of 0 still sets a timer.
PauseStrict(cl, at, t) ==
    LET paused == ClearResumeTimer([cl EXCEPT !.authorized = FALSE])
        delay  == Delay(at, t)
    IN  IF delay < 0
        THEN Resume(paused)
        ELSE [paused EXCEPT !.resumeTimer = t + delay,
                            !.timers = @ \cup {t + delay}]

\* GitHubApiClient.pause(resetAt) called at time t.
Pause(cl, at, t) ==
    LET paused == ClearResumeTimer([cl EXCEPT !.authorized = FALSE])
        delay  == Delay(at, t)
    IN  IF delay <= 0
        THEN Resume(paused)
        ELSE [paused EXCEPT !.resumeTimer = t + delay,
                            !.timers = @ \cup {t + delay}]

\* The test with || in place of &&: one header is enough.
EitherHeaderPresent(remaining, reset) == remaining # Null \/ reset # Null

\* "headers && headers['x-ratelimit-remaining'] && headers['x-ratelimit-
\* reset']": both rate-limit headers are there.
HeadersPresent(remaining, reset) == remaining # Null /\ reset # Null

\* _refresh with < in place of <=: no pause when remaining equals the margin.
RefreshStrict(cl, remaining, reset, t) ==
    IF HeadersPresent(remaining, reset)
    THEN LET upd == [cl EXCEPT !.remainingRequests = remaining,
                               !.resetAt = reset * Second]
         IN  IF upd.remainingRequests - SafetyRemainingRequestCount < 0
             THEN Pause(upd, upd.resetAt, t)
             ELSE upd
    ELSE cl

\* GitHubApiClient._refresh(headers) at time t.  A header is a string, so a
\* present header is truthy whatever number it spells ("0" included).
Refresh(cl, remaining, reset, t) ==
    IF HeadersPresent(remaining, reset)
    THEN LET upd == [cl EXCEPT !.remainingRequests = remaining,
                               !.resetAt = reset * Second]
         IN  IF upd.remainingRequests - SafetyRemainingRequestCount <= 0
             THEN Pause(upd, upd.resetAt, t)
             ELSE upd
    ELSE cl

\* The .then handler of GitHubApiClient.request.
RequestFulfilled(cl, resp, t) ==
    [Refresh(cl, resp.remaining, resp.reset, t) EXCEPT !.busy = FALSE]

\* A .catch handler that never reads Retry-After: a 403 / 429 pauses until
\* the stored reset time only.
RequestRejectedStoredOnly(cl, resp, t) ==
    LET ref == Refresh(cl, resp.remaining, resp.reset, t)
        lim == IF (resp.status = 403 \/ resp.status = 429) /\ ref.resetAt > 0
               THEN Pause(ref, ref.resetAt, t)
               ELSE ref
    IN  [lim EXCEPT !.busy = FALSE]

\* A .catch handler that pauses until the stored reset time without asking
\* whether one is known.
RequestRejectedAnyReset(cl, resp, t) ==
    LET ref == Refresh(cl, resp.remaining, resp.reset, t)
        lim == IF resp.status = 403 \/ resp.status = 429
               THEN IF resp.retryAfter # Null
                    THEN Pause(ref, t + resp.retryAfter * Second, t)
                    ELSE Pause(ref, ref.resetAt, t)
               ELSE ref
    IN  [lim EXCEPT !.busy = FALSE]

\* The .catch handler of GitHubApiClient.request.
RequestRejected(cl, resp, t) ==
    LET ref == Refresh(cl, resp.remaining, resp.reset, t)
        lim == IF resp.status = 403 \/ resp.status = 429
               THEN IF resp.retryAfter # Null
                    THEN Pause(ref, t + resp.retryAfter * Second, t)
                    ELSE IF ref.resetAt > 0
                         THEN Pause(ref, ref.resetAt, t)
                         ELSE ref
               ELSE ref
    IN  [lim EXCEPT !.busy = FALSE]

\* GitHubApiClient.request on entry.
RequestStart(cl) == [cl EXCEPT !.busy = TRUE]

\* -------------------------------------------------------------- the queue

ClientIds == 1 .. Len(clients)

\* Sequences without repetition over the set S, of length 1 .. n.
RECURSIVE Arrangements(_, _)
Arrangements(S, n) ==
    IF n = 0 \/ S = {} THEN {}
    ELSE { <<x>> : x \in S } \cup
         UNION { { <<x>> \o rest : rest \in Arrangements(S \ {x}, n - 1) } : x \in S }

Range(s) == { s[i] : i \in 1 .. Len(s) }

\* Position of x in the sequence s, 0 when absent.
IndexOf(s, x) ==
    IF x \in Range(s) THEN CHOOSE i \in 1 .. Len(s) : s[i] = x ELSE 0

\* Array.prototype.shift in place of pop: the first element is taken.
ArrayShift(q) == [request |-> Head(q), rest |-> Tail(q)]

\* Array.prototype.pop: the last element, and the array without it.
ArrayPop(q) == [request |-> q[Len(q)], rest |-> SubSeq(q, 1, Len(q) - 1)]

\* A filter that forgets isBusy().
IsAuthorizedOnly(cl) == cl.authorized

\* The filter of the polling closure: authorized and not busy.
IsAvailable(cl) == cl.authorized /\ ~cl.busy

\* this._clients.filter(..): available clients in construction order.
RECURSIVE FilterFrom(_)
FilterFrom(i) ==
    IF i > Len(clients) THEN << >>
    ELSE (IF IsAvailable(clients[i]) THEN <<i>> ELSE << >>) \o FilterFrom(i + 1)

AvailableClients == FilterFrom(1)

\* A loop that serves the first available client only.
DispatchOnce(avail, q, sent) ==
    IF avail = << >> \/ Len(q) = 0
    THEN [queries |-> q, sent |-> sent]
    ELSE LET p == ArrayPop(q)
         IN  [queries |-> p.rest,
              sent |-> Append(sent, <<Head(avail), p.request>>)]

\* The for-of loop over the available clients: stop when the backlog is
\* empty, else pop the backlog and hand the request to the client.
RECURSIVE DispatchLoop(_, _, _)
DispatchLoop(avail, q, sent) ==
    IF avail = << >> \/ Len(q) = 0
    THEN [queries |-> q, sent |-> sent]
    ELSE LET p == ArrayPop(q)
         IN  DispatchLoop(Tail(avail), p.rest,
                          Append(sent, <<Head(avail), p.request>>))

\* Requests of the sequence s that are not in seen, in order, each once.
RECURSIVE FirstTimers(_, _)
FirstTimers(s, seen) ==
    IF s = << >> THEN << >>
    ELSE IF Head(s) \in Range(seen)
         THEN FirstTimers(Tail(s), seen)
         ELSE <<Head(s)>> \o FirstTimers(Tail(s), Append(seen, Head(s)))

NoMark == [kind |-> "none", reqs |-> << >>, prior |-> << >>]
NotSettled ==
    [c |-> 0, r |-> 0, ok |-> FALSE, threw |-> FALSE, exhausted |-> FALSE]
NoCall == [op |-> "none"]

Init ==
    /\ clients \in { [i \in 1 .. n |-> NewClient] : n \in 0 .. NClients }
    /\ queries = << >>
    /\ isStopped = FALSE
    /\ errorCount = 0
    /\ errorUrls = << >>
    /\ timeouts = 0
    /\ inflight = [i \in 1 .. Len(clients) |-> {}]
    /\ now = 0
    /\ starts = 0
    /\ enqueued = {}
    /\ callbacks = [r \in Requests |-> 0]
    /\ abortLogged = FALSE
    /\ scheduled = Null
    /\ aborted = {}
    /\ settled = NotSettled
    /\ mark = NoMark
    /\ after = << >>
    /\ ticked = FALSE
    /\ call = NoCall
    /\ owed = 0
    /\ handed = [r \in Requests |-> 0]

\* A wait of two seconds.
WaitTwice == Second + Second

\* "Waits if no client is available or if the queue is empty":
\* setTimeout(queue, 1000).
WaitDelay == Second

\* A closure that never looks at the stop flag.
StopFlagIgnored == FALSE

\* "Stops the process if the stop flag is enabled."
StopFlagEnabled == isStopped

\* The budget test with > in place of >=.
ErrorCountOverBudget == errorCount > MaxErrorCountInTotal

\* "Stops if the error count is too high."
ErrorCountTooBig == errorCount >= MaxErrorCountInTotal

\* A closure whose wait branch returns without setting a timer.
QueueNoRearm(pending) ==
    IF StopFlagEnabled
    THEN /\ timeouts' = pending
         /\ abortLogged' = FALSE
         /\ scheduled' = Null
         /\ UNCHANGED << clients, queries, inflight >>
    ELSE IF ErrorCountTooBig
    THEN /\ timeouts' = pending
         /\ abortLogged' = TRUE
         /\ scheduled' = Null
         /\ UNCHANGED << clients, queries, inflight >>
    ELSE IF Len(queries) = 0 \/ Len(AvailableClients) = 0
    THEN /\ timeouts' = pending
         /\ abortLogged' = FALSE
         /\ scheduled' = WaitDelay
         /\ UNCHANGED << clients, queries, inflight >>
    ELSE LET d == DispatchLoop(AvailableClients, queries, << >>)
             to == [i \in 1 .. Len(d.sent) |-> d.sent[i][1]]
             rq == [i \in 1 .. Len(d.sent) |-> d.sent[i][2]]
         IN  /\ queries' = d.queries
             /\ clients' = [i \in ClientIds |->
                              IF i \in Range(to) THEN RequestStart(clients[i])
                                                 ELSE clients[i]]
             /\ inflight' = [i \in ClientIds |->
                               inflight[i] \cup
                               { rq[k] : k \in { j \in 1 .. Len(to) : to[j] = i } }]
             /\ timeouts' = pending
             /\ abortLogged' = FALSE
             /\ scheduled' = Null

\* One run of the closure `queue` of _process; pending is the number of
\* setTimeout(queue, ..) callbacks that stay pending while it runs.
Queue(pending) ==
    IF StopFlagEnabled
    THEN /\ timeouts' = pending
         /\ abortLogged' = FALSE
         /\ scheduled' = Null
         /\ UNCHANGED << clients, queries, inflight >>
    ELSE IF ErrorCountTooBig
    THEN /\ timeouts' = pending
         /\ abortLogged' = TRUE
         /\ scheduled' = Null
         /\ UNCHANGED << clients, queries, inflight >>
    ELSE IF Len(queries) = 0 \/ Len(AvailableClients) = 0
    THEN /\ timeouts' = pending + 1
         /\ abortLogged' = FALSE
         /\ scheduled' = WaitDelay
         /\ UNCHANGED << clients, queries, inflight >>
    ELSE LET d == DispatchLoop(AvailableClients, queries, << >>)
             to == [i \in 1 .. Len(d.sent) |-> d.sent[i][1]]
             rq == [i \in 1 .. Len(d.sent) |-> d.sent[i][2]]
         IN  /\ queries' = d.queries
             /\ clients' = [i \in ClientIds |->
                              IF i \in Range(to) THEN RequestStart(clients[i])
                                                 ELSE clients[i]]
             /\ inflight' = [i \in ClientIds |->
                               inflight[i] \cup
                               { rq[k] : k \in { j \in 1 .. Len(to) : to[j] = i } }]
             /\ timeouts' = pending
             /\ abortLogged' = FALSE
             /\ scheduled' = Null

\* A start() that clears the error budget before it runs the closure.
StartAfresh ==
    /\ starts < MaxStarts
    /\ starts' = starts + 1
    /\ errorCount' = 0
    /\ Queue(timeouts)
    /\ UNCHANGED << isStopped, errorUrls, now, enqueued, callbacks, aborted >>

\* GitHubApiQueue.start()
Start ==
    /\ starts < MaxStarts
    /\ starts' = starts + 1
    /\ Queue(timeouts)
    /\ UNCHANGED << isStopped, errorCount, errorUrls, now, enqueued, callbacks,
                    aborted >>

\* A pending setTimeout(queue, ..) fires.
Timeout ==
    /\ timeouts > 0
    /\ Queue(timeouts - 1)
    /\ UNCHANGED << isStopped, errorCount, errorUrls, now, starts, enqueued,
                    callbacks, aborted >>

\* GitHubApiQueue.stop()
Stop ==
    /\ isStopped' = TRUE
    /\ abortLogged' = FALSE
    /\ scheduled' = Null
    /\ UNCHANGED << clients, queries, errorCount, errorUrls, timeouts, inflight,
                    now, starts, enqueued, callbacks, aborted >>

Reverse(s) == [i \in 1 .. Len(s) |-> s[Len(s) + 1 - i]]

\* A push that appends its arguments last one first.
ArrayPushReversed(q, rs) == q \o Reverse(rs)

\* Array.prototype.push with the arguments rs.
ArrayPush(q, rs) == q \o rs

\* GitHubApiQueue.getQueueLength()
getQueueLength == Len(queries)

\* Unshifting the arguments one at a time, which reverses them.
ArrayUnshiftEach(q, rs) == Reverse(rs) \o q

\* Array.prototype.unshift with the arguments rs.
ArrayUnshift(q, rs) == rs \o q

\* GitHubApiQueue.push(...rs)
Push(rs) ==
    /\ queries' = ArrayPush(queries, rs)
    /\ abortLogged' = FALSE
    /\ scheduled' = Null
    /\ enqueued' = enqueued \cup Range(rs)
    /\ UNCHANGED << clients, isStopped, errorCount, errorUrls, timeouts,
                    inflight, now, starts, callbacks, aborted >>

\* GitHubApiQueue.unshift(...rs), called by the user.
Unshift(rs) ==
    /\ queries' = ArrayUnshift(queries, rs)
    /\ abortLogged' = FALSE
    /\ scheduled' = Null
    /\ enqueued' = enqueued \cup Range(rs)
    /\ UNCHANGED << clients, isStopped, errorCount, errorUrls, timeouts,
                    inflight, now, starts, callbacks, aborted >>

\* Counters that only flag the URL: the per-URL count never passes 1.
FlagError(urls, u) ==
    [x \in DOMAIN urls \cup {u} |-> IF x = u THEN 1 ELSE urls[x]]

\* The error counters of the .catch handler: this._errorUrls[url] is set to
\* 1 when it is absent (or 0), else incremented.
CountError(urls, u) ==
    IF u \notin DOMAIN urls \/ urls[u] = 0
    THEN [x \in DOMAIN urls \cup {u} |-> IF x = u THEN 1 ELSE urls[x]]
    ELSE [urls EXCEPT ![u] = @ + 1]

\* The test with <= in place of <.
IsRetriedInclusive(urls, u) == urls[u] <= MaxErrorCountPerRequest

\* The test of the .catch handler that decides between Retry and Abort.
IsRetried(urls, u) == urls[u] < MaxErrorCountPerRequest

\* getRequestFailCount(): the number of keys of this._errorUrls whose count
\* has reached maxErrorCountPerRequest.
getRequestFailCount ==
    Cardinality({u \in DOMAIN errorUrls :
                    errorUrls[u] >= MaxErrorCountPerRequest})

\* this.push(request) in place of this.unshift(request).
RequeueAtTail(q, r) == ArrayPush(q, <<r>>)

\* A retry that slips the request in behind the head of the backlog.
RequeueBehindHead(q, r) ==
    IF q = << >> THEN <<r>> ELSE <<Head(q), r>> \o Tail(q)

\* this.unshift(request) of the .catch handler.
Requeue(q, r) == ArrayUnshift(q, <<r>>)

\* A .then handler that drops the result once stop() has been called.
ThenUnlessStopped(r) ==
    callbacks' = IF isStopped THEN callbacks
                 ELSE [callbacks EXCEPT ![r] = @ + 1]

\* The .then handler the queue registers for request r: runCallback.
Then(r) == callbacks' = [callbacks EXCEPT ![r] = @ + 1]

\* The .catch handler the queue registers for request r.
Catch(r) ==
    /\ errorCount' = errorCount + 1
    /\ errorUrls' = CountError(errorUrls, getUrl(r))
    /\ IF IsRetried(errorUrls', getUrl(r))
       THEN /\ queries' = Requeue(queries, r)
            /\ UNCHANGED aborted
       ELSE /\ aborted' = aborted \cup {r}
            /\ UNCHANGED queries

\* What the transport hands back: fulfilled (ok) or rejected, with the HTTP
\* status (0: no response at all) and the three headers the client reads
\* (Null: header absent).
Response(ok, status, remaining, reset, retryAfter) ==
    [ok |-> ok, status |-> status, remaining |-> remaining, reset |-> reset,
     retryAfter |-> retryAfter]

\* The responses the scheduler's clients receive: fulfilled without
\* rate-limit headers or with the quota used up (reset at second 1), rejected
\* without any response, or with 429 and with or without Retry-After.
Responses ==
    { Response(TRUE, 200, Null, Null, Null),
      Response(TRUE, 200, 0, 1, Null),
      Response(FALSE, 0, Null, Null, Null),
      Response(FALSE, 429, Null, Null, 1),
      Response(FALSE, 429, Null, Null, Null) }

\* Bound on the inputs: the pause that resp may start at time t is due by MaxNow.
WithinHorizon(resp, t) ==
    resp.retryAfter # Null =>
        t + resp.retryAfter * Second + TokenResumeBufferTime <= MaxNow

\* What request() hands to its caller once axios has settled with resp: the
\* response (return response) or the error it caught (Promise.reject(error)).
Surfaced(resp) == resp

\* The HTTP call of client c for request r settles with resp; throws tells
\* whether the user's callback throws.  Runs the client's handler, then the
\* queue's .then / .catch / .finally handlers.
Settle(c, r, resp, throws) ==
    /\ r \in inflight[c]
    /\ WithinHorizon(resp, now)
    /\ inflight' = [inflight EXCEPT ![c] = @ \ {r}]
    /\ clients' = [clients EXCEPT ![c] =
                     IF resp.ok THEN RequestFulfilled(@, resp, now)
                                ELSE RequestRejected(@, resp, now)]
    /\ IF Surfaced(resp).ok
       THEN /\ Then(r)
            /\ IF throws
               THEN Catch(r)
               ELSE UNCHANGED << errorCount, errorUrls, queries, aborted >>
       ELSE /\ Catch(r)
            /\ UNCHANGED callbacks
    /\ timeouts' = timeouts + 1
    /\ abortLogged' = FALSE
    /\ scheduled' = 0
    /\ UNCHANGED << isStopped, now, starts, enqueued >>

\* A timer that fires as soon as it is set, whatever its delay.
ResumeTimerAtOnce(c) ==
    /\ \E due \in clients[c].timers :
         clients' = [clients EXCEPT ![c] =
                       Resume([@ EXCEPT !.timers = @ \ {due}])]
    /\ abortLogged' = FALSE
    /\ scheduled' = Null
    /\ UNCHANGED << queries, isStopped, errorCount, errorUrls, timeouts,
                    inflight, now, starts, enqueued, callbacks, aborted >>

\* A setTimeout callback installed by pause() fires for client c: the clock
\* has reached the time the timer is due, or is already past it.
ResumeTimer(c) ==
    /\ \E due \in clients[c].timers :
         /\ now' = Max(now, due)
         /\ clients' = [clients EXCEPT ![c] =
                          Resume([@ EXCEPT !.timers = @ \ {due}])]
    /\ abortLogged' = FALSE
    /\ scheduled' = Null
    /\ UNCHANGED << queries, isStopped, errorCount, errorUrls, timeouts,
                    inflight, starts, enqueued, callbacks, aborted >>

\* A pause that withdraws the authorization and sets no timer.
UserPauseFlagOnly(c, at) ==
    /\ at + TokenResumeBufferTime <= MaxNow
    /\ clients' = [clients EXCEPT ![c].authorized = FALSE]
    /\ abortLogged' = FALSE
    /\ scheduled' = Null
    /\ UNCHANGED << queries, isStopped, errorCount, errorUrls, timeouts,
                    inflight, now, starts, enqueued, callbacks, aborted >>

\* The user calls client.pause(at) on client c.
UserPause(c, at) ==
    /\ at + TokenResumeBufferTime <= MaxNow
    /\ clients' = [clients EXCEPT ![c] = Pause(@, at, now)]
    /\ abortLogged' = FALSE
    /\ scheduled' = Null
    /\ UNCHANGED << queries, isStopped, errorCount, errorUrls, timeouts,
                    inflight, now, starts, enqueued, callbacks, aborted >>

\* A caller other than the queue calls client.request for request r on
\* client c: busy is set and the HTTP call is handed to axios.
ClientRequest(c, r) ==
    /\ r \notin inflight[c]
    /\ Cardinality(inflight[c]) < MaxOutstanding
    /\ clients' = [clients EXCEPT ![c] = RequestStart(@)]
    /\ inflight' = [inflight EXCEPT ![c] = @ \cup {r}]
    /\ abortLogged' = FALSE
    /\ scheduled' = Null
    /\ UNCHANGED << queries, isStopped, errorCount, errorUrls, timeouts, now,
                    starts, enqueued, callbacks, aborted >>

\* The HTTP call of such a request settles with resp: the client's .then or
\* .catch handler runs.
ClientSettle(c, r, resp) ==
    /\ r \in inflight[c]
    /\ WithinHorizon(resp, now)
    /\ inflight' = [inflight EXCEPT ![c] = @ \ {r}]
    /\ clients' = [clients EXCEPT ![c] =
                     IF resp.ok THEN RequestFulfilled(@, resp, now)
                                ELSE RequestRejected(@, resp, now)]
    /\ abortLogged' = FALSE
    /\ scheduled' = Null
    /\ UNCHANGED << queries, isStopped, errorCount, errorUrls, timeouts, now,
                    starts, enqueued, callbacks, aborted >>

\* Date.now() moves on by a second.
AdvanceTime ==
    /\ now + Second <= MaxNow
    /\ now' = now + Second
    /\ abortLogged' = FALSE
    /\ scheduled' = Null
    /\ UNCHANGED << clients, queries, isStopped, errorCount, errorUrls,
                    timeouts, inflight, starts, enqueued, callbacks, aborted >>

\* ---------------------------------------------------------- observers
\* The response carries both rate-limit headers and leaves no request above
\* the safety margin.
Exhausted(resp) ==
    /\ resp.remaining # Null /\ resp.reset # Null
    /\ resp.remaining - SafetyRemainingRequestCount <= 0

\* settled records, beside the program, which settlement led to the current
\* state: the client, the request, whether the HTTP call was fulfilled,
\* whether the callback threw and whether the response told that the quota
\* is used up.
\* mark and after record the latest enqueue and the order in which requests
\* are dispatched after it.

NoSettlement == settled' = NotSettled

Settlement(c, r, resp, throws) ==
    settled' = [c |-> c, r |-> r, ok |-> resp.ok, threw |-> resp.ok /\ throws,
                exhausted |-> Exhausted(resp)]

Unobserved == UNCHANGED << mark, after >>

\* ticked stays FALSE where ticks are not observed.
Unticked == UNCHANGED ticked

\* handed stays 0 where the dispatches are not counted.
Unsent == UNCHANGED handed

\* call stays NoCall, and owed 0, where the clients are driven by the queue.
Uncalled == UNCHANGED << call, owed >> /\ Unsent

\* owed stays 0 where the quota is not followed.
Unowed == UNCHANGED owed /\ Unsent

Unwatched == Unobserved /\ Unticked /\ Uncalled

\* The caller's push / unshift of rs has just run.
ObserveEnqueue(kind, rs) ==
    /\ mark' = [kind |-> kind, reqs |-> rs, prior |-> queries]
    /\ after' = << >>

\* The requests handed to clients in this step, in the order of the clients.
RECURSIVE SentFrom(_)
SentFrom(i) ==
    IF i > Len(clients) THEN << >>
    ELSE (IF inflight'[i] \subseteq inflight[i] THEN << >>
          ELSE <<CHOOSE r \in inflight'[i] \ inflight[i] : TRUE>>)
         \o SentFrom(i + 1)

\* A run of the polling closure has just ended.
ObserveQueue ==
    /\ mark' = mark
    /\ after' = IF Range(mark.reqs) \subseteq Range(after)
                THEN after
                ELSE after \o FirstTimers(SentFrom(1), after)

\* The handlers of request r have just run: a retry is an enqueue.
ObserveSettle(r) ==
    IF queries' # queries
    THEN /\ mark' = [kind |-> "retry", reqs |-> <<r>>, prior |-> queries]
         /\ after' = << >>
    ELSE Unobserved

Next ==
    \/ Start /\ NoSettlement /\ Unwatched
    \/ Stop /\ NoSettlement /\ Unwatched
    \/ Timeout /\ NoSettlement /\ Unwatched
    \/ \E rs \in Arrangements(Requests \ enqueued, MaxArgs) :
         Push(rs) /\ NoSettlement /\ Unwatched
    \/ \E rs \in Arrangements(Requests \ enqueued, MaxArgs) :
         Unshift(rs) /\ NoSettlement /\ Unwatched
    \/ \E c \in ClientIds : \E r \in inflight[c] :
         \E resp \in Responses : \E throws \in BOOLEAN :
           Settle(c, r, resp, throws) /\ Settlement(c, r, resp, throws)
           /\ Unwatched
    \/ \E c \in ClientIds : ResumeTimer(c) /\ NoSettlement /\ Unwatched

Spec == Init /\ [][Next]_vars

\* The same program with the order observer switched on, one start() and
\* responses that carry no rate-limit information.
PlainResponses ==
    { Response(TRUE, 200, Null, Null, Null), Response(FALSE, 0, Null, Null, Null) }

NextOrder ==
    \/ starts = 0 /\ Start /\ ObserveQueue /\ NoSettlement /\ Unticked /\ Uncalled
    \/ Timeout /\ ObserveQueue /\ NoSettlement /\ Unticked /\ Uncalled
    \/ \E rs \in Arrangements(Requests \ enqueued, MaxArgs) :
         Push(rs) /\ ObserveEnqueue("push", rs) /\ NoSettlement /\ Unticked /\ Uncalled
    \/ \E rs \in Arrangements(Requests \ enqueued, MaxArgs) :
         Unshift(rs) /\ ObserveEnqueue("unshift", rs) /\ NoSettlement
         /\ Unticked /\ Uncalled
    \/ \E c \in ClientIds : \E r \in inflight[c] :
         \E resp \in PlainResponses : \E throws \in BOOLEAN :
           Settle(c, r, resp, throws) /\ ObserveSettle(r) /\ NoSettlement
           /\ Unticked /\ Uncalled

SpecOrder == Init /\ [][NextOrder]_vars

\* The same program with the runs of the polling closure observed: ticked
\* tells whether the step into the current state was a start() or a fired
\* setTimeout(queue, ..).  Responses carry no rate-limit information.
Ticks == ticked' = TRUE
NoTick == ticked' = FALSE

NextTick ==
    \/ Start /\ Ticks /\ NoSettlement /\ Unobserved /\ Uncalled
    \/ Stop /\ NoTick /\ NoSettlement /\ Unobserved /\ Uncalled
    \/ Timeout /\ Ticks /\ NoSettlement /\ Unobserved /\ Uncalled
    \/ \E rs \in Arrangements(Requests \ enqueued, MaxArgs) :
         Push(rs) /\ NoTick /\ NoSettlement /\ Unobserved /\ Uncalled
    \/ \E c \in ClientIds : \E r \in inflight[c] :
         \E resp \in PlainResponses : \E throws \in BOOLEAN :
           Settle(c, r, resp, throws) /\ Settlement(c, r, resp, throws)
           /\ NoTick /\ Unobserved /\ Uncalled

SpecTick == Init /\ [][NextTick]_vars

\* The event loop runs a timer that is due: a pending setTimeout(queue, ..)
\* callback fires in the end.
TickFires == Timeout /\ Ticks /\ NoSettlement /\ Unobserved /\ Uncalled

\* The transport settles its calls: while requests are in flight, one of
\* them completes in the end.
Completes ==
    \E c \in ClientIds : \E r \in inflight[c] :
      \E resp \in PlainResponses : \E throws \in BOOLEAN :
        Settle(c, r, resp, throws) /\ Settlement(c, r, resp, throws)
        /\ NoTick /\ Unobserved /\ Uncalled

SpecTickLive == SpecTick /\ WF_vars(TickFires) /\ WF_vars(Completes)

\* The runs of the polling closure observed while the clients pause and
\* resume on the rate-limit information of their responses.
NextWait ==
    \/ Start /\ Ticks /\ NoSettlement /\ Unobserved /\ Uncalled
    \/ Stop /\ NoTick /\ NoSettlement /\ Unobserved /\ Uncalled
    \/ Timeout /\ Ticks /\ NoSettlement /\ Unobserved /\ Uncalled
    \/ \E rs \in Arrangements(Requests \ enqueued, MaxArgs) :
         Push(rs) /\ NoTick /\ NoSettlement /\ Unobserved /\ Uncalled
    \/ \E c \in ClientIds : \E r \in inflight[c] :
         \E resp \in Responses : \E throws \in BOOLEAN :
           Settle(c, r, resp, throws) /\ NoSettlement
           /\ NoTick /\ Unobserved /\ Uncalled
    \/ \E c \in ClientIds :
         ResumeTimer(c) /\ NoTick /\ NoSettlement /\ Unobserved /\ Uncalled

SpecWait == Init /\ [][NextWait]_vars

\* The queue and its clients left to run: the caller pushes and starts the
\* queue once, stop() is never called, the clients pause and resume on the
\* rate-limit information of their responses, and nothing is observed
\* beside the program.
DrainTick == Timeout /\ NoSettlement /\ Unwatched

DrainSettle(c) ==
    /\ c \in ClientIds
    /\ \E r \in inflight[c] : \E resp \in Responses : \E throws \in BOOLEAN :
         Settle(c, r, resp, throws) /\ NoSettlement /\ Unwatched

DrainResume(c) ==
    /\ c \in ClientIds
    /\ ResumeTimer(c) /\ NoSettlement /\ Unwatched

NextDrain ==
    \/ starts = 0 /\ Start /\ NoSettlement /\ Unwatched
    \/ DrainTick
    \/ \E rs \in Arrangements(Requests \ enqueued, MaxArgs) :
         Push(rs) /\ NoSettlement /\ Unwatched
    \/ \E c \in 1 .. NClients : DrainSettle(c)
    \/ \E c \in 1 .. NClients : DrainResume(c)

\* Timers that are due fire, every transport call completes and every pause
\* expires.
SpecDrain ==
    /\ Init /\ [][NextDrain]_vars
    /\ WF_vars(DrainTick)
    /\ \A c \in 1 .. NClients : WF_vars(DrainSettle(c)) /\ WF_vars(DrainResume(c))

\* One client driven by its caller, without the queue: request(), the
\* settlement of its HTTP calls, pause(), the resume timer and the clock.
\* call records the operation that led to the current state, for pause()
\* with the timers that were pending when it was called.
\* The responses: fulfilled, rejected without a response (status 0), or
\* rejected with a status; x-ratelimit-remaining is absent, 5 or 6,
\* x-ratelimit-reset is absent, 0 or 1 and Retry-After is absent or 1.
ClientResponses ==
    { Response(TRUE, 200, rem, rst, Null) :
        rem \in {Null, 5, 6}, rst \in {Null, 0, 1} }
    \cup { Response(FALSE, 0, Null, Null, Null) }
    \cup { Response(FALSE, st, rem, rst, ra) :
             st \in {403, 429, 500}, rem \in {Null, 5, 6},
             rst \in {Null, 0, 1}, ra \in {Null, 1} }

\* Reset times handed to pause() by the caller.
PauseTimes == { 0, Second }

Called(op, c) == call' = [op |-> op, c |-> c]
CalledPause(c, at) ==
    call' = [op |-> "pause", c |-> c, at |-> at, had |-> clients[c].timers]
CalledSettle(c, r, resp) ==
    call' = [op |-> "settle", c |-> c, r |-> r, resp |-> resp,
             out |-> Surfaced(resp)]

InitClient == Init /\ Len(clients) = 1

Unqueued == NoSettlement /\ Unobserved /\ Unticked /\ Unowed

NextClient ==
    \/ \E c \in ClientIds : \E r \in Requests :
         ClientRequest(c, r) /\ Called("request", c) /\ Unqueued
    \/ \E c \in ClientIds : \E r \in inflight[c] : \E resp \in ClientResponses :
         ClientSettle(c, r, resp) /\ CalledSettle(c, r, resp) /\ Unqueued
    \/ \E c \in ClientIds : \E at \in PauseTimes :
         UserPause(c, at) /\ CalledPause(c, at) /\ Unqueued
    \/ \E c \in ClientIds : ResumeTimer(c) /\ Called("resume", c) /\ Unqueued
    \/ AdvanceTime /\ call' = NoCall /\ Unqueued

SpecClient == InitClient /\ [][NextClient]_vars

\* The scheduler with the dispatches counted: handed[r] is the number of times
\* the polling closure has handed request r to a client.  Responses carry no
\* rate-limit information.
Sends ==
    handed' = [r \in Requests |->
               handed[r] + Cardinality({ c \in ClientIds :
                                         r \in inflight'[c] \ inflight[c] })]

Uncounted == NoSettlement /\ Unobserved /\ Unticked /\ UNCHANGED << call, owed >>

NextSent ==
    \/ Start /\ Sends /\ Uncounted
    \/ Stop /\ Unsent /\ Uncounted
    \/ Timeout /\ Sends /\ Uncounted
    \/ \E rs \in Arrangements(Requests \ enqueued, MaxArgs) :
         Push(rs) /\ Unsent /\ Uncounted
    \/ \E rs \in Arrangements(Requests \ enqueued, MaxArgs) :
         Unshift(rs) /\ Unsent /\ Uncounted
    \/ \E c \in ClientIds : \E r \in inflight[c] :
         \E resp \in PlainResponses : \E throws \in BOOLEAN :
           Settle(c, r, resp, throws) /\ Unsent /\ Uncounted

SpecSent == Init /\ [][NextSent]_vars

\* One client used as the queue uses it: request() is called only while the
\* client is authorized and not busy, and the caller never calls pause().
\* Responses may name a reset time beyond the pause a Retry-After asks for.
\* owed follows the quota: the latest reset time, resume buffer included,
\* that a response reporting remaining - safetyMargin <= 0 has named.
LimitResponses ==
    ClientResponses
    \cup { Response(TRUE, 200, rem, 2, Null) : rem \in {5, 6} }
    \cup { Response(FALSE, st, rem, 2, ra) :
             st \in {403, 429, 500}, rem \in {5, 6}, ra \in {Null, 1} }

Owes(resp) ==
    owed' = IF Exhausted(resp)
            THEN Max(owed, resp.reset * Second + TokenResumeBufferTime)
            ELSE owed

\* Bound on the inputs: the timer a settlement leaves pending is due by MaxNow.
DueWithinHorizon(c) == \A due \in clients'[c].timers : due <= MaxNow

Unlisted == NoSettlement /\ Unobserved /\ Unticked

NextLimit ==
    \/ \E c \in ClientIds : \E r \in Requests :
         /\ IsAvailable(clients[c])
         /\ ClientRequest(c, r) /\ Called("request", c) /\ Unowed /\ Unlisted
    \/ \E c \in ClientIds : \E r \in inflight[c] : \E resp \in LimitResponses :
         /\ ClientSettle(c, r, resp) /\ DueWithinHorizon(c)
         /\ CalledSettle(c, r, resp) /\ Owes(resp) /\ Unsent /\ Unlisted
    \/ \E c \in ClientIds :
         ResumeTimer(c) /\ Called("resume", c) /\ Unowed /\ Unlisted
    \/ AdvanceTime /\ call' = NoCall /\ Unowed /\ Unlisted

SpecLimit == InitClient /\ [][NextLimit]_vars

\* The event loop runs a timer that is due: a pending resume timer fires
\* in the end.
ResumeFires ==
    \E c \in ClientIds : ResumeTimer(c) /\ Called("resume", c) /\ Unqueued

SpecClientLive == SpecClient /\ WF_vars(ResumeFires)

\* ----------------------------------------------------------------- claims

InFlight == UNION { inflight[c] : c \in ClientIds }

\* The count this._errorUrls holds for url u, 0 when the key is absent.
ErrorsOf(urls, u) == IF u \in DOMAIN urls THEN urls[u] ELSE 0

RECURSIVE SumOver(_, _)
SumOver(f, S) ==
    IF S = {} THEN 0
    ELSE LET x == CHOOSE y \in S : TRUE IN f[x] + SumOver(f, S \ {x})

\* A step of the polling closure that hands at least one request to a client.
Dispatches ==
    \/ Len(queries') < Len(queries)
    \/ \E c \in ClientIds : ~(inflight'[c] \subseteq inflight[c])

\* C1: under the scheduler a client never has more than one request in
\* flight, whatever the interleaving of ticks, completions and resume timers.
C1_OneInFlight ==
    \A c \in ClientIds : Cardinality(inflight[c]) <= 1

\* A busy, authorized client with a request in flight while the backlog is
\* not empty and a tick is pending that the stop flag and the error budget
\* let through.
C1_Witness ==
    /\ ~isStopped /\ errorCount < MaxErrorCountInTotal
    /\ timeouts > 0 /\ Len(queries) > 0
    /\ \E c \in ClientIds : clients[c].authorized /\ inflight[c] # {}

\* C2: dispatch is LIFO.  A dispatching tick removes the tail of the backlog
\* (the k requests it hands out are the last k, taken from the tail first),
\* and after push(r1..rk) with no later enqueue the first request dispatched
\* is rk, each ri being dispatched only after the arguments that follow it.
C2_Lifo ==
    [][ /\ Dispatches =>
             LET k == Len(queries) - Len(queries')
             IN  /\ k > 0
                 /\ queries' = SubSeq(queries, 1, Len(queries) - k)
                 /\ SentFrom(1) = [i \in 1 .. k |-> queries[Len(queries) + 1 - i]]
        /\ (mark'.kind = "push" /\ after' # << >>) =>
             /\ after'[1] = mark'.reqs[Len(mark'.reqs)]
             /\ \A i, j \in 1 .. Len(mark'.reqs) :
                  (i < j /\ mark'.reqs[i] \in Range(after')) =>
                     /\ mark'.reqs[j] \in Range(after')
                     /\ IndexOf(after', mark'.reqs[j]) < IndexOf(after', mark'.reqs[i])
      ]_vars

\* push(a, b) onto a backlog that was not empty, and both dispatched since.
C2_Witness ==
    /\ mark.kind = "push" /\ Len(mark.reqs) = 2 /\ mark.prior # << >>
    /\ Range(mark.reqs) \subseteq Range(after)

\* C3 as stated: after unshift(a, b) the next request dispatched is a.
C3_Original ==
    (mark.kind = "unshift" /\ Len(mark.reqs) = 2 /\ after # << >>) =>
        after[1] = mark.reqs[1]

\* C3 as amended: unshift(a, b) puts a, b at the head of the backlog in that
\* order, before the previous contents, and the next request dispatched is
\* the one at the tail: the previous tail, or b when the backlog was empty.
C3_Amended ==
    mark.kind = "unshift" =>
        /\ after = << >> => queries = mark.reqs \o mark.prior
        /\ after # << >> =>
             after[1] = (mark.reqs \o mark.prior)[Len(mark.reqs) + Len(mark.prior)]

\* unshift(a, b) in front of a backlog that was not empty, then a dispatch.
C3_Witness ==
    /\ mark.kind = "unshift" /\ Len(mark.reqs) = 2 /\ mark.prior # << >>
    /\ after # << >>

\* C4 as stated: a failed request that is re-queued is the next request
\* dispatched.
C4_Original ==
    (mark.kind = "retry" /\ after # << >>) => after[1] = mark.reqs[1]

\* C4 as amended: a failed request still under its budget is re-queued at the
\* head of the backlog, and the next request dispatched is the one at the
\* tail: the failed request only when the backlog was empty when it failed,
\* else the request that was at the tail then.
C4_Amended ==
    mark.kind = "retry" =>
        /\ after = << >> => queries = mark.reqs \o mark.prior
        /\ after # << >> =>
             after[1] = IF mark.prior = << >> THEN mark.reqs[1]
                        ELSE mark.prior[Len(mark.prior)]

\* A request was re-queued in front of a backlog that was not empty, and a
\* dispatch has followed.
C4_Witness ==
    mark.kind = "retry" /\ mark.prior # << >> /\ after # << >>

\* C5: a failed dispatch of r takes errorsByUrl[r.url] from n (0 if absent)
\* to n + 1; below maxPerRequest r is re-enqueued, at maxPerRequest or above
\* r is dropped, and a dropped request is never in the backlog or in flight
\* again.
C5_RetryOrDrop ==
    [][ /\ (settled'.r # 0 /\ ~settled'.ok) =>
             LET r == settled'.r
                 u == getUrl(r)
                 n == ErrorsOf(errorUrls, u) + 1
             IN  /\ ErrorsOf(errorUrls', u) = n
                 /\ n < MaxErrorCountPerRequest =>
                      (queries' = <<r>> \o queries /\ aborted' = aborted)
                 /\ n >= MaxErrorCountPerRequest =>
                      (queries' = queries /\ aborted' = aborted \cup {r})
        /\ \A r \in aborted : r \notin Range(queries') /\ r \notin InFlight'
      ]_vars

\* The failure that took the count to exactly maxPerRequest dropped r.
C5_Witness ==
    /\ settled.r # 0 /\ ~settled.ok /\ settled.r \in aborted
    /\ ErrorsOf(errorUrls, getUrl(settled.r)) = MaxErrorCountPerRequest

\* C6 as stated: an enqueued request has been abandoned iff errorsByUrl of
\* its URL is at least maxPerRequest, also when requests share a URL.
C6_Claim ==
    \A r \in enqueued :
        r \in aborted <=> ErrorsOf(errorUrls, getUrl(r)) >= MaxErrorCountPerRequest

\* C7: errorCount is the sum of errorsByUrl over all URLs.
C7_ErrorSum ==
    errorCount = SumOver(errorUrls, DOMAIN errorUrls)

\* Two URLs have failed, one of them more than once.
C7_Witness ==
    /\ Cardinality(DOMAIN errorUrls) >= 2
    /\ \E u \in DOMAIN errorUrls : errorUrls[u] >= 2

\* C8 as stated: the callback of a request runs at most once, and once it has
\* run the request is not re-enqueued, dispatched again or abandoned.
C8_Claim ==
    \A r \in Requests :
        /\ callbacks[r] <= 1
        /\ callbacks[r] = 1 =>
             r \notin Range(queries) /\ r \notin InFlight /\ r \notin aborted

\* C9: a request is dispatched, and leaves the backlog, only when start()
\* has been called and stopped is false.
C9_OnlyWhenRunning ==
    [][ Dispatches => (starts' > 0 /\ ~isStopped) ]_vars

\* A pending tick finds the queue stopped with a backlog, an available
\* client and error budget left.
C9_Witness ==
    /\ isStopped /\ starts > 0 /\ timeouts > 0 /\ Len(queries) > 0
    /\ errorCount < MaxErrorCountInTotal
    /\ \E c \in ClientIds : clients[c].authorized /\ ~clients[c].busy

\* C10: a dispatch that settles after stop() still runs the callback when it
\* was fulfilled, and when it was rejected still counts the error and
\* re-enqueues or drops the request.
C10_SettleAfterStop ==
    [][ (isStopped /\ settled'.r # 0) =>
          LET r == settled'.r
              u == getUrl(r)
          IN  /\ settled'.ok => callbacks'[r] = callbacks[r] + 1
              /\ ~settled'.ok =>
                   /\ callbacks'[r] = callbacks[r]
                   /\ errorCount' = errorCount + 1
                   /\ ErrorsOf(errorUrls', u) = ErrorsOf(errorUrls, u) + 1
                   /\ \/ queries' = <<r>> \o queries /\ r \notin aborted'
                      \/ queries' = queries /\ r \in aborted'
      ]_vars

\* A request dispatched before stop() was fulfilled after it and its
\* callback has run.
C10_Witness ==
    /\ isStopped /\ settled.r # 0 /\ settled.ok /\ ~settled.threw
    /\ callbacks[settled.r] = 1

\* C11 as stated: a tick that starts with errorCount at or above maxTotal
\* (errorCount = maxTotal included) dispatches nothing, reports the global
\* abort and schedules no further tick.
C11_Original ==
    [][ (ticked' /\ errorCount >= MaxErrorCountInTotal) =>
          /\ queries' = queries /\ inflight' = inflight
          /\ abortLogged'
          /\ timeouts' = IF starts' = starts THEN timeouts - 1 ELSE timeouts
      ]_vars

\* C11 as amended: such a tick dispatches nothing and schedules no further
\* tick; it reports the global abort when the queue has not been stopped, and
\* reports nothing when stop() has been called, the stop flag being tested
\* first.
C11_Amended ==
    [][ (ticked' /\ errorCount >= MaxErrorCountInTotal) =>
          /\ queries' = queries /\ inflight' = inflight
          /\ abortLogged' = ~isStopped
          /\ timeouts' = IF starts' = starts THEN timeouts - 1 ELSE timeouts
      ]_vars

\* A tick has just found errorCount = maxTotal with a backlog and a free
\* client, and has reported the abort.
C11_Witness ==
    /\ ticked /\ abortLogged /\ errorCount = MaxErrorCountInTotal
    /\ Len(queries) > 0
    /\ \E c \in ClientIds : clients[c].authorized /\ ~clients[c].busy

\* The response is a 403 / 429 failure that carries Retry-After.
RetryAfterGiven(resp) ==
    ~resp.ok /\ resp.status \in {403, 429} /\ resp.retryAfter # Null

\* C12 as stated: whenever a response, fulfilled or rejected, carries both
\* rate-limit headers with remaining - safetyMargin <= 0, the client is
\* unauthorized and not busy once the request has settled.
C12_Original ==
    [][ (call'.op = "settle" /\ Exhausted(call'.resp)) =>
          /\ ~clients'[call'.c].authorized
          /\ ~clients'[call'.c].busy
      ]_vars

\* C12 as amended: such a response stores remaining and reset x 1000 and
\* calls pause(reset x 1000), and the client is not busy once the request
\* has settled.  It is then unauthorized, with its one resume timer due at
\* reset x 1000 + resumeBuffer, if that time is still ahead; if it is not,
\* pause resumes at once and the client is authorized with no timer.  (A
\* 403 / 429 failure with Retry-After = s pauses again, until now + s x 1000.)
C12_Amended ==
    [][ (call'.op = "settle" /\ Exhausted(call'.resp)) =>
          LET resp == call'.resp
              cl == clients'[call'.c]
              target == IF RetryAfterGiven(resp)
                        THEN now + resp.retryAfter * Second
                        ELSE resp.reset * Second
              due == target + TokenResumeBufferTime
          IN  /\ ~cl.busy
              /\ cl.remainingRequests = resp.remaining
              /\ cl.resetAt = resp.reset * Second
              /\ IF due > now
                 THEN ~cl.authorized /\ cl.resumeTimer = due /\ cl.timers = {due}
                 ELSE cl.authorized /\ cl.resumeTimer = Null /\ cl.timers = {}
      ]_vars

\* A rejected call without 403 / 429 has just settled with remaining equal
\* to the safety margin and a reset time ahead: the client is paused.
C12_Witness ==
    /\ call.op = "settle" /\ Exhausted(call.resp) /\ ~call.resp.ok
    /\ call.resp.status = 500
    /\ call.resp.remaining = SafetyRemainingRequestCount
    /\ ~clients[call.c].authorized /\ ~clients[call.c].busy

\* C13: a failure with status 403 or 429 that carries Retry-After = s pauses
\* the client until now + s x 1000: after the request has settled the client
\* is unauthorized, its one resume timer is due at now + s x 1000 +
\* resumeBuffer, and the caller is handed the original failure.
C13_RetryAfter ==
    [][ (call'.op = "settle" /\ RetryAfterGiven(call'.resp)) =>
          LET cl == clients'[call'.c]
              due == now + call'.resp.retryAfter * Second + TokenResumeBufferTime
          IN  /\ ~cl.authorized /\ ~cl.busy
              /\ cl.resumeTimer = due /\ cl.timers = {due}
              /\ call'.out = call'.resp /\ ~call'.out.ok
      ]_vars

\* A 403 with Retry-After and with rate-limit headers that themselves ask
\* for a pause until another time has just settled.
C13_Witness ==
    /\ call.op = "settle" /\ RetryAfterGiven(call.resp)
    /\ call.resp.status = 403 /\ Exhausted(call.resp) /\ call.resp.reset = 0
    /\ ~clients[call.c].authorized
    /\ clients[call.c].timers = {now + call.resp.retryAfter * Second
                                     + TokenResumeBufferTime}

\* C14: a client has at most one pending resume timer at any time, whatever
\* the sequence of explicit pause calls, header-triggered pauses, 403 / 429
\* pauses and timer firings.
C14_OneResumeTimer ==
    \A c \in ClientIds : Cardinality(clients[c].timers) <= 1

\* pause(0) has just been called, before any time had passed, on a client
\* that the rate-limit headers had paused until second 1: the timer due at
\* 0 + resumeBuffer is the only one pending.
C14_Witness ==
    /\ call.op = "pause" /\ call.at = 0 /\ now = 0
    /\ clients[call.c].resetAt = Second
    /\ clients[call.c].remainingRequests = SafetyRemainingRequestCount
    /\ clients[call.c].timers = {TokenResumeBufferTime}

\* C15: a pause(t2) issued while the timer of an earlier pause(t1) is still
\* pending cancels that timer, and exactly one resume follows, at t2 +
\* resumeBuffer, also when t2 is earlier than t1: the one timer left is due
\* at t2 + resumeBuffer (the resume is immediate when that time has passed),
\* and a firing timer is the only one pending, fires no earlier than it is
\* due and leaves none behind.
C15_Repause ==
    [][ /\ (call'.op = "pause" /\ call'.had # {}) =>
             LET cl == clients'[call'.c]
                 due == call'.at + TokenResumeBufferTime
             IN  /\ call'.had \cap cl.timers \subseteq {due}
                 /\ IF due > now
                    THEN cl.timers = {due} /\ ~cl.authorized
                    ELSE cl.timers = {} /\ cl.authorized
        /\ call'.op = "resume" =>
             /\ \E due \in clients[call'.c].timers :
                  clients[call'.c].timers = {due} /\ now' >= due
             /\ clients'[call'.c].timers = {}
             /\ clients'[call'.c].authorized
      ]_vars

\* pause(0) has just been called while the timer of a pause until second 1
\* was pending: the earlier reset time replaces the later one.
C15_Witness ==
    /\ call.op = "pause" /\ call.at = 0
    /\ call.had = {Second + TokenResumeBufferTime}
    /\ clients[call.c].timers = {TokenResumeBufferTime}
    /\ ~clients[call.c].authorized

\* C16: after pause(resetAt) with resetAt - now + resumeBuffer > 0 the client
\* is unauthorized with its timer due at resetAt + resumeBuffer; short of a
\* later pause it becomes authorized only when that timer fires, which is
\* never before resetAt + resumeBuffer; and it resumes in the end.
C16_ResumeWhenDue ==
    /\ [][ /\ (call'.op = "pause" /\ call'.at + TokenResumeBufferTime > now) =>
                /\ ~clients'[call'.c].authorized
                /\ clients'[call'.c].resumeTimer
                     = call'.at + TokenResumeBufferTime
           /\ \A c \in ClientIds :
                ( /\ ~clients[c].authorized /\ clients'[c].authorized
                  /\ call'.op \notin {"pause", "settle"} ) =>
                    /\ call'.op = "resume"
                    /\ clients[c].resumeTimer # Null
                    /\ now' >= clients[c].resumeTimer
         ]_vars
    /\ \A c \in 1 .. NClients :
         (c \in ClientIds /\ ~clients[c].authorized)
            ~> (c \in ClientIds /\ clients[c].authorized)

\* A timer set at time 0 for the reset time 1000 has just fired, at 1000 +
\* resumeBuffer, and the client is authorized again.
C16_Witness ==
    /\ call.op = "resume" /\ now = Second + TokenResumeBufferTime
    /\ clients[call.c].authorized /\ clients[call.c].timers = {}
    /\ clients[call.c].resetAt = 0 /\ clients[call.c].remainingRequests = 0

C18_Claim ==
    \A c \in ClientIds : clients[c].busy <=> inflight[c] # {}

\* C19: in every reachable state a client with authorized = false has a
\* resume scheduled or a resetAt in the past.
C19_PausedHasResume ==
    \A c \in ClientIds :
        ~clients[c].authorized =>
            clients[c].timers # {} \/ clients[c].resetAt < now

\* An unauthorized client whose resetAt is not in the past: its resume is
\* scheduled.
C19_Witness ==
    \E c \in ClientIds :
        /\ ~clients[c].authorized /\ clients[c].resetAt >= now
        /\ clients[c].timers = {clients[c].resumeTimer}

\* The 403 / 429 branch of the .catch handler pauses the client cl, whose
\* fields _refresh has already updated.
RateLimitPause(resp, cl) ==
    /\ ~resp.ok /\ resp.status \in {403, 429}
    /\ resp.retryAfter # Null \/ cl.resetAt > 0

\* C20: when either rate-limit header is missing from a response the header
\* refresh changes no client state: remainingRequests and resetAt keep
\* their values, and so do authorized and the resume timer unless the
\* response is a 403 / 429 that pauses the client by itself.
C20_MissingHeader ==
    [][ ( /\ call'.op = "settle"
          /\ call'.resp.remaining = Null \/ call'.resp.reset = Null ) =>
          LET old == clients[call'.c]
              new == clients'[call'.c]
          IN  /\ new.remainingRequests = old.remainingRequests
              /\ new.resetAt = old.resetAt
              /\ ~RateLimitPause(call'.resp, old) =>
                   /\ new.authorized = old.authorized
                   /\ new.resumeTimer = old.resumeTimer
                   /\ new.timers = old.timers
      ]_vars

\* A fulfilled response with x-ratelimit-remaining at the safety margin but
\* without x-ratelimit-reset has just settled on an authorized client.
C20_Witness ==
    /\ call.op = "settle" /\ call.resp.ok
    /\ call.resp.remaining = SafetyRemainingRequestCount
    /\ call.resp.reset = Null
    /\ clients[call.c].authorized /\ clients[call.c].timers = {}

\* C21 as stated: a rate-limit exhaustion detected on a fulfilled response is
\* not a failure: under the scheduler the callback runs and no error is
\* counted; and every rejected call reaches the scheduler as a failure.
C21_Claim ==
    [][ /\ (settled'.r # 0 /\ settled'.ok /\ settled'.exhausted) =>
             /\ callbacks'[settled'.r] = callbacks[settled'.r] + 1
             /\ errorCount' = errorCount /\ errorUrls' = errorUrls
        /\ (settled'.r # 0 /\ ~settled'.ok) =>
             /\ callbacks' = callbacks
             /\ errorCount' = errorCount + 1
      ]_vars

\* C22 as stated: getRequestFailCount() is the number of failed requests
\* that have been abandoned: it counts the requests dropped so far, and every
\* step that abandons a request ("Abort") raises it by one.
C22_Claim ==
    [][ /\ aborted' # aborted =>
             getRequestFailCount' = getRequestFailCount + 1
        /\ getRequestFailCount' = Cardinality(aborted')
      ]_vars

\* C23 as stated: after stop() the scheduler stays stopped only until
\* start() is invoked again: a start() of a stopped queue re-enters Running
\* (stopped is false again) and dispatches when there is a backlog, a free
\* authorized client and error budget left.
C23_Claim ==
    [][ (starts' = starts + 1 /\ isStopped) =>
          /\ ~isStopped'
          /\ ( /\ Len(queries) > 0
               /\ errorCount < MaxErrorCountInTotal
               /\ \E c \in ClientIds : IsAvailable(clients[c]) ) => Dispatches
      ]_vars

\* C24 as stated: when the loop has ended because errorCount has reached
\* maxTotal, stopped is left untouched, and a later start() resumes
\* dispatching: it hands the backlog to the free authorized clients.
C24_Original ==
    [][ /\ abortLogged' => isStopped' = isStopped
        /\ ( /\ starts' = starts + 1 /\ ~isStopped
             /\ errorCount >= MaxErrorCountInTotal
             /\ Len(queries) > 0
             /\ \E c \in ClientIds : IsAvailable(clients[c]) ) => Dispatches
      ]_vars

\* C24 as amended: the tick that ends the loop on the error budget leaves
\* stopped untouched, and so does all that follows; errorCount never
\* decreases, so a later start() dispatches nothing, schedules no tick and
\* reports the abort again.
C24_Amended ==
    [][ /\ abortLogged' => isStopped' = isStopped /\ ~isStopped
        /\ errorCount' >= errorCount
        /\ ( /\ starts' = starts + 1 /\ ~isStopped
             /\ errorCount >= MaxErrorCountInTotal ) =>
               /\ queries' = queries /\ inflight' = inflight
               /\ timeouts' = timeouts
               /\ abortLogged'
      ]_vars

\* After the second start() a run of the polling closure has just reported
\* the abort on a queue that is not stopped, with a backlog and a free
\* authorized client left, and no tick is pending.
C24_Witness ==
    /\ ticked /\ starts = 2 /\ abortLogged /\ ~isStopped
    /\ errorCount >= MaxErrorCountInTotal
    /\ timeouts = 0
    /\ Len(queries) > 0
    /\ \E c \in ClientIds : IsAvailable(clients[c])

\* C25: a run of the polling closure that gets as far as the wait test
\* (not stopped, error budget left) and finds the backlog empty, or no
\* client that is both authorized and not busy, hands out nothing, leaves
\* the backlog, the clients and the error counters as they are and calls
\* setTimeout(queue, 1000); and whenever no client is authorized and free
\* (no clients at all, only busy ones, only unauthorized ones) no step
\* shortens the backlog.
C25_IdleTick ==
    [][ /\ ( /\ ticked' /\ ~isStopped /\ errorCount < MaxErrorCountInTotal
             /\ \/ Len(queries) = 0
                \/ \A c \in ClientIds :
                      ~clients[c].authorized \/ clients[c].busy ) =>
               /\ queries' = queries /\ inflight' = inflight
               /\ clients' = clients
               /\ errorCount' = errorCount /\ errorUrls' = errorUrls
               /\ scheduled' = Second
               /\ timeouts' = IF starts' = starts THEN timeouts
                                                  ELSE timeouts + 1
        /\ (\A c \in ClientIds : ~clients[c].authorized \/ clients[c].busy) =>
               Len(queries') >= Len(queries)
      ]_vars

\* A run of the closure has just waited with a backlog at hand, its clients
\* all idle but paused.
C25_Witness ==
    /\ ticked /\ scheduled = Second /\ Len(queries) > 0
    /\ Len(clients) > 0
    /\ \A c \in ClientIds : ~clients[c].authorized /\ ~clients[c].busy

\* C26: push(r1..rk) leaves the backlog as its previous contents followed by
\* r1..rk in argument order, unshift(r1..rk) as r1..rk in argument order
\* followed by its previous contents; each raises getQueueLength() by exactly
\* k, and getQueueLength() is the size of the backlog in every state.
C26_Enqueue ==
    [][ /\ (enqueued' # enqueued /\ mark'.kind = "push") =>
             /\ queries' = queries \o mark'.reqs
             /\ getQueueLength' = getQueueLength + Len(mark'.reqs)
        /\ (enqueued' # enqueued /\ mark'.kind = "unshift") =>
             /\ queries' = mark'.reqs \o queries
             /\ getQueueLength' = getQueueLength + Len(mark'.reqs)
        /\ getQueueLength' = Len(queries')
      ]_vars

\* push(a, b) has just run on a backlog that was not empty.
C26_Witness ==
    /\ mark.kind = "push" /\ Len(mark.reqs) = 2 /\ mark.prior # << >>
    /\ after = << >>
    /\ getQueueLength = Len(mark.prior) + 2

\* C27: a failed request that is retried goes to the front of the backlog,
\* the end opposite to the one dispatched next, so when it is dispatched
\* again every request that was in the backlog when it failed has been
\* dispatched before it.
C27_RetriedLast ==
    mark.kind = "retry" =>
        /\ after = << >> => Head(queries) = mark.reqs[1]
        /\ \A i \in 1 .. Len(after) :
             after[i] = mark.reqs[1] =>
                 Range(mark.prior) \subseteq { after[j] : j \in 1 .. i - 1 }

\* A request failed with two others in the backlog and has been dispatched
\* again since.
C27_Witness ==
    /\ mark.kind = "retry" /\ Len(mark.prior) = 2
    /\ mark.reqs[1] \in Range(after)

\* C29: in a run of the polling closure that dispatches (not stopped, error
\* budget left, backlog not empty, some client authorized and not busy),
\* with available the clients authorized and not busy at that instant,
\* exactly min(|available|, |backlog|) requests leave the tail of the
\* backlog; the i-th available client in construction order becomes busy
\* with the i-th request from the tail, and every other client, the
\* unauthorized and the busy ones among them, is left as it was.
C29_Dispatch ==
    [][ LET avail == { c \in ClientIds :
                         clients[c].authorized /\ ~clients[c].busy }
            n == IF Cardinality(avail) < Len(queries)
                 THEN Cardinality(avail) ELSE Len(queries)
            rank(c) == Cardinality({ d \in avail : d <= c })
        IN  ( /\ ticked' /\ ~isStopped /\ errorCount < MaxErrorCountInTotal
              /\ Len(queries) > 0 /\ avail # {} ) =>
                /\ queries' = SubSeq(queries, 1, Len(queries) - n)
                /\ \A c \in ClientIds :
                     IF c \in avail /\ rank(c) <= n
                     THEN /\ inflight'[c] = inflight[c] \cup
                               { queries[Len(queries) + 1 - rank(c)] }
                          /\ clients'[c].busy
                     ELSE /\ inflight'[c] = inflight[c]
                          /\ clients'[c] = clients[c]
      ]_vars

\* The one run of the closure so far, that of start(), has just handed two
\* requests of a backlog of three to the two clients at once.
C29_Witness ==
    /\ ticked /\ starts = 1 /\ timeouts = 0 /\ ~isStopped
    /\ Len(clients) = 2 /\ Len(queries) = 1 /\ enqueued = Requests
    /\ callbacks = [r \in Requests |-> 0] /\ errorCount = 0
    /\ \A c \in ClientIds : clients[c].busy /\ Cardinality(inflight[c]) = 1
    /\ inflight[1] # inflight[2]

\* C30: a failure without Retry-After has just settled.  If its status is
\* 403 or 429 and the reset time the client knows after the header refresh
\* is above 0, pause(resetAt) has been applied: the client is unauthorized
\* with its one resume timer due at resetAt + resumeBuffer, or, that time
\* being reached already, authorized without a timer.  If the status is 403
\* or 429 and resetAt is 0, or the status is any other, the only pause is
\* the one the header refresh starts: unless the headers told that the quota
\* is used up, authorized and the resume timer are as before.
C30_StoredReset ==
    [][ ( /\ call'.op = "settle" /\ ~call'.resp.ok
          /\ call'.resp.retryAfter = Null ) =>
          LET resp == call'.resp
              old == clients[call'.c]
              new == clients'[call'.c]
              due == new.resetAt + TokenResumeBufferTime
          IN  /\ (resp.status \in {403, 429} /\ new.resetAt > 0) =>
                   IF due > now
                   THEN /\ ~new.authorized
                        /\ new.resumeTimer = due /\ new.timers = {due}
                   ELSE /\ new.authorized
                        /\ new.resumeTimer = Null /\ new.timers = {}
              /\ ( /\ resp.status \notin {403, 429} \/ new.resetAt = 0
                   /\ ~Exhausted(resp) ) =>
                   /\ new.authorized = old.authorized
                   /\ new.resumeTimer = old.resumeTimer
                   /\ new.timers = old.timers
      ]_vars

\* A 429 without any header has just settled on a client that knew a reset
\* time, and a quota above the margin, from an earlier response: it is
\* paused until that time plus the buffer.
C30_Witness ==
    /\ call.op = "settle" /\ ~call.resp.ok /\ call.resp.status = 429
    /\ call.resp.retryAfter = Null
    /\ call.resp.remaining = Null /\ call.resp.reset = Null
    /\ clients[call.c].resetAt > 0
    /\ clients[call.c].remainingRequests > SafetyRemainingRequestCount
    /\ ~clients[call.c].authorized
    /\ clients[call.c].timers =
          {clients[call.c].resetAt + TokenResumeBufferTime}

\* C31 as stated: errorCount never decreases and is the number of dispatches
\* whose client request failed: a step raises it, by one, exactly when the
\* HTTP call of a dispatched request has just been rejected.
C31_Claim ==
    [][ /\ errorCount' >= errorCount
        /\ (settled'.r # 0 /\ ~settled'.ok) => errorCount' = errorCount + 1
        /\ errorCount' # errorCount => (settled'.r # 0 /\ ~settled'.ok)
      ]_vars

\* The scheduler has been started, is not stopped, has error budget left, a
\* backlog and a client that is authorized and not busy.
CanDispatch ==
    /\ starts > 0 /\ ~isStopped /\ errorCount < MaxErrorCountInTotal
    /\ Len(queries) > 0
    /\ \E c \in ClientIds : clients[c].authorized /\ ~clients[c].busy

\* The step into this state was a run of the polling closure that took
\* neither return nor the wait: it handed requests to clients.
Dispatched == ticked /\ ~isStopped /\ ~abortLogged /\ scheduled = Null

\* C32 as stated: whenever the scheduler has been started, is not stopped,
\* errorCount is below maxTotal, the backlog is not empty and some client is
\* authorized and not busy, a dispatch follows in the end.
C32_Original == CanDispatch ~> Dispatched

\* C32 as amended: while the scheduler is started, not stopped and within
\* its error budget, a run of the closure is pending or a request is in
\* flight (no wake-up is lost); and, timers firing and transport calls
\* completing in the end, whenever a dispatch is possible a dispatch
\* follows, unless stop() is called or errorCount reaches maxTotal first.
C32_Amended ==
    /\ []( (starts > 0 /\ ~isStopped /\ errorCount < MaxErrorCountInTotal) =>
             (timeouts > 0 \/ InFlight # {}) )
    /\ CanDispatch ~>
          (Dispatched \/ isStopped \/ errorCount >= MaxErrorCountInTotal)

\* After a completion the closure has run again and has just dispatched the
\* last request of the backlog.
C32_Witness ==
    /\ Dispatched /\ starts = 1 /\ Len(queries) = 0 /\ InFlight # {}
    /\ \E r \in Requests : callbacks[r] > 0

\* The run is outside the claim's conditions: stop() has been called or
\* errorCount has reached maxTotal.
Given_Up == isStopped \/ errorCount >= MaxErrorCountInTotal

\* C33: with at least one client, start() called, stop() never called and
\* errorCount staying below maxTotal, every transport call completing and
\* every pause expiring in the end, every request enqueued has its callback
\* run or is abandoned in the end, and from some moment on the backlog stays
\* empty.
C33_Drains ==
    /\ \A r \in Requests :
         (Len(clients) > 0 /\ starts > 0 /\ r \in enqueued) ~>
             (callbacks[r] > 0 \/ r \in aborted \/ Given_Up)
    /\ [](( Len(clients) > 0 /\ starts > 0) =>
             <>[](Len(queries) = 0 \/ Given_Up))

\* All requests were enqueued and each has had its callback run or has been
\* abandoned, one at least abandoned, with error budget left, no stop(),
\* an empty backlog and nothing in flight.
C33_Witness ==
    /\ Len(clients) > 0 /\ starts > 0 /\ ~Given_Up
    /\ enqueued = Requests /\ aborted # {}
    /\ \A r \in Requests : callbacks[r] > 0 \/ r \in aborted
    /\ Len(queries) = 0 /\ InFlight = {}

\* The places request r is in: each entry of the backlog that holds it, each
\* client it is in flight on, completed (its callback was invoked) and
\* abandoned.
PlacesOf(r) ==
    Cardinality({ i \in 1 .. Len(queries) : queries[i] = r })
    + Cardinality({ c \in ClientIds : r \in inflight[c] })
    + (IF callbacks[r] > 0 THEN 1 ELSE 0)
    + (IF r \in aborted THEN 1 ELSE 0)

\* C34 as stated: no request is lost or duplicated: every enqueued request is
\* in exactly one of four places (once in the backlog, in flight on one
\* client, completed, abandoned), so backlog + in flight + completed +
\* abandoned is the number of requests enqueued, whatever the interleaving
\* of completions and the number of start() calls.
C34_Claim ==
    /\ \A r \in enqueued : PlacesOf(r) = 1
    /\ Len(queries) + Cardinality(InFlight)
         + Cardinality({ r \in Requests : callbacks[r] > 0 })
         + Cardinality(aborted) = Cardinality(enqueued)

\* C35 as stated: after a response whose headers report remaining -
\* safetyMargin <= 0 with reset time R the client is not authorized at any
\* time before R x 1000 + resumeBuffer, whatever else that response or later
\* timer events carry, the caller never calling pause().
C35_Claim ==
    \A c \in ClientIds : now < owed => ~clients[c].authorized

\* C36 as stated: after a single start() the number of pending scheduled
\* ticks plus in-flight dispatches never exceeds max(1, |clients|).
C36_Claim ==
    starts = 1 => timeouts + Cardinality(InFlight) <= Max(1, Len(clients))

\* C37: starting from errorCount = 0 with maxTotal >= 1 and at least one
\* client, errorCount never exceeds maxTotal + |clients| - 1: the failures
\* of the requests in flight when the budget is reached are the only
\* overshoot.
\* What can still be added is what is in flight: errorCount plus the
\* requests in flight stays within the same bound.
C37_Overshoot ==
    Len(clients) >= 1 =>
        /\ errorCount <= MaxErrorCountInTotal + Len(clients) - 1
        /\ errorCount + Cardinality(InFlight)
              <= MaxErrorCountInTotal + Len(clients) - 1

\* Two clients, and the two requests in flight when the third failure was
\* one short have both failed: the bound is met exactly.
C37_Witness ==
    /\ Len(clients) = NClients
    /\ errorCount = MaxErrorCountInTotal + Len(clients) - 1
    /\ settled.r # 0 /\ ~settled.ok
    /\ InFlight = {}

\* Request r is enqueued and no other enqueued request has its URL.
UrlUnshared(r) ==
    /\ r \in enqueued
    /\ \A q \in enqueued \ {r} : getUrl(q) # getUrl(r)

\* C38: for maxPerRequest >= 1, a request whose URL no other enqueued request
\* shares is dispatched at most maxPerRequest times over any execution.
C38_Dispatched ==
    \A r \in Requests : UrlUnshared(r) => handed[r] <= MaxErrorCountPerRequest

\* The request with a URL of its own has been dispatched maxPerRequest times
\* and is abandoned; every tick scheduled since has run and the scheduler
\* is still dispatching other requests.
C38_Witness ==
    /\ MaxErrorCountPerRequest >= 1
    /\ UrlUnshared(NReq) /\ handed[NReq] = MaxErrorCountPerRequest
    /\ NReq \in aborted /\ NReq \notin InFlight
    /\ starts = 1 /\ ~isStopped /\ errorCount < MaxErrorCountInTotal
    /\ timeouts = 0 /\ InFlight # {}

====
